---------------------------- MODULE Spec2Model ----------------------------
(***************************************************************************)
(* A model of pp/core/spectral.py: SpectralAnalyzer.psd() and the pipeline *)
(* of _compute_psd (lines 52-123).                                         *)
(*                                                                         *)
(* Numbers.  float64 / complex128 values are modelled by exact rationals   *)
(* extended with the IEEE non-finite values: a real is a record [n, d]     *)
(* with d > 0 in lowest terms, or +inf = [1,0], -inf = [-1,0], nan = [0,0].*)
(* A complex number is a pair [re, im] of finite reals, or CNonFinite when *)
(* any component is inf or nan.  Rounding error is not modelled: what the  *)
(* code computes "within floating-point tolerance" the model computes      *)
(* exactly.                                                                *)
(*                                                                         *)
(* Inputs.  np.roots is modelled by what it returns: a list of the roots   *)
(* of the polynomial, conjugate pairs adjacent with the positive imaginary *)
(* part first (LAPACK's order for a real companion matrix), roots at zero  *)
(* from trailing zero coefficients last.  The roots are looked up in       *)
(* RootCatalogue, a list of root lists on the real and imaginary axes, so  *)
(* that moduli and angles are rational; theta is drawn from the            *)
(* polynomials of that catalogue.  The 2048-point frequency grid is        *)
(* reduced to the 5-point grid linspace(-0.5, 0.5, 5), on which            *)
(* exp(2j*pi*f) is in {1, -1, i, -i}.                                      *)
(***************************************************************************)
EXTENDS Integers, Sequences, FiniteSets, TLC

(***************************************************************************)
(* Exact arithmetic on extended rationals (float64).                       *)
(***************************************************************************)
AbsInt(x) == IF x < 0 THEN -x ELSE x

SignInt(x) == IF x < 0 THEN -1 ELSE IF x > 0 THEN 1 ELSE 0

RECURSIVE Gcd(_, _)
Gcd(a, b) == IF b = 0 THEN a ELSE Gcd(b, a % b)

\* n/d in lowest terms, d > 0
Rat(n, d) ==
    LET g == Gcd(AbsInt(n), d)
    IN  [n |-> n \div g, d |-> d \div g]

Int2R(x) == [n |-> x, d |-> 1]

RZero == Int2R(0)

ROne == Int2R(1)

PosInf == [n |-> 1, d |-> 0]

NegInf == [n |-> -1, d |-> 0]

NaN == [n |-> 0, d |-> 0]

IsFin(a) == a.d > 0

RNeg(a) == [n |-> -a.n, d |-> a.d]

RAbs(a) == [n |-> AbsInt(a.n), d |-> a.d]

RAdd(a, b) ==
    IF IsFin(a) /\ IsFin(b)
    THEN LET g == Gcd(a.d, b.d)
         IN  Rat(a.n * (b.d \div g) + b.n * (a.d \div g), (a.d \div g) * b.d)
    ELSE IF a = NaN \/ b = NaN THEN NaN
    ELSE IF IsFin(a) THEN b
    ELSE IF IsFin(b) THEN a
    ELSE IF a = b THEN a ELSE NaN

RSub(a, b) == RAdd(a, RNeg(b))

RMul(a, b) ==
    IF IsFin(a) /\ IsFin(b)
    THEN IF a.n = 0 \/ b.n = 0 THEN RZero
         ELSE LET g1 == Gcd(AbsInt(a.n), b.d)
                  g2 == Gcd(AbsInt(b.n), a.d)
              IN  [n |-> (a.n \div g1) * (b.n \div g2),
                   d |-> (a.d \div g2) * (b.d \div g1)]
    ELSE IF a.n = 0 \/ b.n = 0 THEN NaN
    ELSE IF SignInt(a.n) = SignInt(b.n) THEN PosInf ELSE NegInf

\* 1/a: 1/0 is inf, 1/inf is 0, 1/nan is nan
RInv(a) ==
    IF IsFin(a)
    THEN IF a.n = 0 THEN PosInf
         ELSE [n |-> SignInt(a.n) * a.d, d |-> AbsInt(a.n)]
    ELSE IF a = NaN THEN NaN ELSE RZero

RDiv(a, b) == RMul(a, RInv(b))

\* a < b; every comparison with nan is false
RLess(a, b) ==
    IF a = NaN \/ b = NaN \/ a = b THEN FALSE
    ELSE IF a = NegInf \/ b = PosInf THEN TRUE
    ELSE IF a = PosInf \/ b = NegInf THEN FALSE
    ELSE LET g == Gcd(a.d, b.d)
         IN  a.n * (b.d \div g) < b.n * (a.d \div g)

RLeq(a, b) == (a = b /\ a # NaN) \/ RLess(a, b)

RECURSIVE RPow(_, _)
RPow(a, e) == IF e = 0 THEN ROne ELSE RMul(a, RPow(a, e - 1))

RECURSIVE ISqrtIn(_, _, _)
ISqrtIn(x, lo, hi) ==
    IF lo >= hi THEN lo
    ELSE LET mid == (lo + hi + 1) \div 2
         IN  IF mid * mid <= x THEN ISqrtIn(x, mid, hi) ELSE ISqrtIn(x, lo, mid - 1)

ISqrt(x) == ISqrtIn(x, 0, IF x < 46340 THEN x ELSE 46340)

\* the square root of a rational square
RSqrt(a) == [n |-> ISqrt(a.n), d |-> ISqrt(a.d)]

(***************************************************************************)
(* Complex numbers (complex128).                                           *)
(***************************************************************************)
Cx(re, im) == [re |-> re, im |-> im]

CNonFinite == Cx(NaN, NaN)

CFin(c) == IsFin(c.re) /\ IsFin(c.im)

CReal(r) == IF IsFin(r) THEN Cx(r, RZero) ELSE CNonFinite

CZero == Cx(RZero, RZero)

COne == Cx(ROne, RZero)

CI == Cx(RZero, ROne)

CAdd(a, b) ==
    IF CFin(a) /\ CFin(b) THEN Cx(RAdd(a.re, b.re), RAdd(a.im, b.im)) ELSE CNonFinite

CNeg(a) == IF CFin(a) THEN Cx(RNeg(a.re), RNeg(a.im)) ELSE CNonFinite

CSub(a, b) == CAdd(a, CNeg(b))

CMul(a, b) ==
    IF CFin(a) /\ CFin(b)
    THEN Cx(RSub(RMul(a.re, b.re), RMul(a.im, b.im)),
            RAdd(RMul(a.re, b.im), RMul(a.im, b.re)))
    ELSE CNonFinite

Conj(a) == IF CFin(a) THEN Cx(a.re, RNeg(a.im)) ELSE CNonFinite

\* |a|^2
CAbs2(a) == IF CFin(a) THEN RAdd(RMul(a.re, a.re), RMul(a.im, a.im)) ELSE NaN

\* np.abs
CAbs(a) == IF CFin(a) THEN RSqrt(CAbs2(a)) ELSE NaN

\* 1/a; a division by zero leaves inf or nan components
CInv(a) ==
    IF CFin(a) /\ a # CZero
    THEN LET g == Gcd(a.re.d, a.im.d)
             l == (a.re.d \div g) * a.im.d
             x == a.re.n * (l \div a.re.d)
             y == a.im.n * (l \div a.im.d)
             h == Gcd(AbsInt(x), AbsInt(y))
             m == (x \div h) * (x \div h) + (y \div h) * (y \div h)
             \* a = (h / l) * (x/h + i y/h), so 1/a = (l / h) * (x/h - i y/h) / m
         IN  Cx(RMul(Rat(l, h), Rat(x \div h, m)), RMul(Rat(l, h), Rat(-(y \div h), m)))
    ELSE CNonFinite

CDiv(a, b) == CMul(a, CInv(b))

\* real * complex
CScale(r, a) == CMul(CReal(r), a)

\* np.real
Re(a) == IF CFin(a) THEN a.re ELSE NaN

(***************************************************************************)
(* Arrays are sequences.  Polynomials are coefficient sequences, highest   *)
(* degree first, as in np.roots and np.polyval.                            *)
(***************************************************************************)
\* the coefficients of c(z) * (z - r)
MulLinear(c, r) ==
    [i \in 1..(Len(c) + 1) |->
        CSub(IF i <= Len(c) THEN c[i] ELSE CZero,
             IF i > 1 THEN CMul(r, c[i - 1]) ELSE CZero)]

RECURSIVE PolyFromRoots(_)
PolyFromRoots(r) ==
    IF r = <<>> THEN <<COne>>
    ELSE MulLinear(PolyFromRoots(SubSeq(r, 1, Len(r) - 1)), r[Len(r)])

\* np.polyval: Horner's rule
RECURSIVE Polyval(_, _)
Polyval(c, x) ==
    IF c = <<>> THEN CZero
    ELSE CAdd(CMul(Polyval(SubSeq(c, 1, Len(c) - 1), x), x), c[Len(c)])

RECURSIVE CProd(_)
CProd(s) == IF s = <<>> THEN COne ELSE CMul(CProd(SubSeq(s, 1, Len(s) - 1)), s[Len(s)])

RECURSIVE RSum(_)
RSum(s) == IF s = <<>> THEN RZero ELSE RAdd(RSum(SubSeq(s, 1, Len(s) - 1)), s[Len(s)])

RECURSIVE RMax(_)
RMax(s) ==
    IF Len(s) = 1 THEN s[1]
    ELSE LET m == RMax(SubSeq(s, 1, Len(s) - 1))
         IN  IF RLess(m, s[Len(s)]) THEN s[Len(s)] ELSE m

(***************************************************************************)
(* The inputs of the model.                                                *)
(***************************************************************************)
\* the largest AR order p of the inputs
MaxOrder == 3

\* a root on the real axis, a root on the imaginary axis
Rl(n, d) == Cx(Rat(n, d), RZero)

Im(n, d) == Cx(RZero, Rat(n, d))

\* a conjugate pair on the imaginary axis, positive imaginary part first
Pair(n, d) == <<Im(n, d), Im(-n, d)>>

\* Root lists as np.roots returns them.  Moduli below 0.99, at 0.99, between
\* 0.99 and 1, and above 1; single, repeated and zero roots; conjugate pairs.
RootCatalogue ==
    << <<Rl(1, 2)>>, <<Rl(-1, 2)>>, <<Rl(0, 1)>>, <<Rl(99, 100)>>,
       <<Rl(199, 200)>>, <<Rl(1, 1)>>, <<Rl(-1, 1)>>, <<Rl(2, 1)>>,
       <<Rl(1, 2), Rl(1, 4)>>, <<Rl(1, 4), Rl(1, 2)>>,
       <<Rl(-1, 2), Rl(1, 4)>>, <<Rl(1, 4), Rl(-1, 2)>>,
       <<Rl(1, 2), Rl(1, 2)>>, <<Rl(1, 2), Rl(-1, 2)>>,
       <<Rl(1, 2), Rl(0, 1)>>, <<Rl(1, 1), Rl(0, 1)>>,
       <<Rl(199, 200), Rl(0, 1)>>, <<Rl(99, 50), Rl(1, 2)>>,
       <<Rl(1, 1), Rl(1, 1)>>, <<Rl(99, 100), Rl(1, 2)>>,
       <<Rl(-99, 50), Rl(1, 2)>>, <<Rl(0, 1), Rl(0, 1)>>,
       Pair(1, 2), Pair(1, 1), Pair(199, 200), Pair(2, 1),
       <<Rl(-1, 2)>> \o Pair(1, 2), Pair(1, 2) \o <<Rl(-1, 2)>>,
       Pair(1, 2) \o <<Rl(1, 4)>>, <<Rl(1, 4)>> \o Pair(1, 2),
       <<Rl(1, 2), Rl(1, 4), Rl(-1, 2)>>, <<Rl(1, 2), Rl(1, 2), Rl(-1, 4)>>,
       Pair(1, 4) \o <<Rl(1, 2)>>, <<Rl(99, 50), Rl(1, 2), Rl(-1, 2)>>,
       <<Rl(99, 50)>> \o Pair(1, 2), Pair(1, 2) \o <<Rl(0, 1)>>,
       Pair(1, 2) \o Pair(1, 4), Pair(1, 4) \o Pair(1, 2),
       Pair(1, 2) \o <<Rl(1, 2), Rl(-1, 2)>>,
       <<Rl(1, 2), Rl(1, 4), Rl(-1, 2), Rl(-1, 4)>>,
       <<Rl(-1, 1), Rl(0, 1), Rl(0, 1), Rl(0, 1)>> >>

CatalogueIndex == {i \in DOMAIN RootCatalogue : Len(RootCatalogue[i]) <= MaxOrder}

CataloguePoly == [i \in DOMAIN RootCatalogue |-> PolyFromRoots(RootCatalogue[i])]

\* the AR coefficients whose characteristic polynomial is CataloguePoly[i]:
\* ar = [1, -theta_1, ..., -theta_p]
CoeffsOf(i) == [j \in 1..Len(RootCatalogue[i]) |-> RNeg(CataloguePoly[i][j + 1].re)]

ThetapDomain == {<<>>} \cup {CoeffsOf(i) : i \in CatalogueIndex}

\* the value of an intercept theta[0]
Theta0 == Int2R(10)

\* inter-event intervals, in seconds
WnDomain == { <<Int2R(1), Int2R(1)>>, <<Rat(1, 2), Rat(3, 2)>>, <<Rat(1, 2)>> }

KDomain == { Int2R(1000000), Int2R(250000), Int2R(0), Int2R(-1000000) }

(***************************************************************************)
(* The state: the analyzer's model and option, the position in             *)
(* _compute_psd, its locals, and what the call returned or raised.         *)
(***************************************************************************)
VARIABLES
    model,              \* self.model: theta, wn, k, hasTheta0
    aggregate,          \* self.aggregate
    given,              \* the model as the caller supplied it
    pc,
    thetap, thetapBuf,  \* the coefficient array and the buffer it occupies
    mean_interval, var, fsamp,
    poles_values, container, mod_scale,
    powers, frequencies,
    poles_residuals, poles_frequencies, poles_powers,
    poles_comps, poles_comps_agg,
    result, error

input == <<model, aggregate, given>>

coeffs == <<thetap, thetapBuf>>

moments == <<mean_interval, var, fsamp>>

polestate == <<poles_values, container, mod_scale>>

spectrum == <<powers, frequencies>>

residues == <<poles_residuals, poles_frequencies, poles_powers>>

comps == <<poles_comps, poles_comps_agg>>

outcome == <<result, error>>

vars == <<input, pc, coeffs, moments, polestate, spectrum, residues, comps, outcome>>

\* the value of a local not yet assigned, of no result, of no error
None == [none |-> TRUE]

\* the buffers of the caller's arrays
BufTheta == "model.theta"

BufWn == "model.wn"

Init ==
    /\ \E tp \in ThetapDomain, has \in BOOLEAN, w \in WnDomain, kk \in KDomain :
          /\ model = [theta |-> IF has THEN <<Theta0>> \o tp ELSE tp,
                      wn |-> w, k |-> kk, hasTheta0 |-> has]
          /\ given = model
    /\ aggregate \in BOOLEAN
    /\ pc = "preprocess"
    /\ thetap = None /\ thetapBuf = None
    /\ mean_interval = None /\ var = None /\ fsamp = None
    /\ poles_values = None /\ container = None /\ mod_scale = None
    /\ powers = None /\ frequencies = None
    /\ poles_residuals = None /\ poles_frequencies = None /\ poles_powers = None
    /\ poles_comps = None /\ poles_comps_agg = None
    /\ result = None /\ error = None

(***************************************************************************)
(* Line 55: thetap = deepcopy(theta[1:]) or deepcopy(theta[:]).  The slice *)
(* is copied into a buffer of its own; the model's array is left as is.    *)
(***************************************************************************)
SliceInPlace(m) ==
    LET t == IF m.hasTheta0 THEN SubSeq(m.theta, 2, Len(m.theta)) ELSE m.theta
    IN  [model |-> [m EXCEPT !.theta = t], thetap |-> t, buf |-> BufTheta]

SliceCopy(m) ==
    [model |-> m,
     thetap |-> IF m.hasTheta0 THEN SubSeq(m.theta, 2, Len(m.theta)) ELSE m.theta,
     buf |-> "thetap@55"]

Preprocess ==
    /\ pc = "preprocess"
    /\ LET r == SliceCopy(model)
       IN  /\ model' = r.model
           /\ thetap' = r.thetap
           /\ thetapBuf' = r.buf
    /\ pc' = "variance"
    /\ UNCHANGED <<aggregate, given, moments, polestate, spectrum, residues, comps, outcome>>

(***************************************************************************)
(* Lines 56-59: the mean interval, the variance in ms^2, the sampling rate.*)
(* A float64 division by zero gives inf or nan and raises nothing.         *)
(***************************************************************************)
Mean(w) == RDiv(RSum(w), Int2R(Len(w)))

Variance(mean, kk) == RMul(Int2R(1000000), RDiv(RPow(mean, 3), kk))

EstimateVariance ==
    /\ pc = "variance"
    /\ mean_interval' = Mean(model.wn)
    /\ var' = Variance(Mean(model.wn), model.k)
    /\ fsamp' = RInv(Mean(model.wn))
    /\ pc' = "roots"
    /\ UNCHANGED <<input, coeffs, polestate, spectrum, residues, comps, outcome>>

(***************************************************************************)
(* Lines 60-64: ar = [1, -thetap], its roots, sorted by absolute angle.    *)
(***************************************************************************)
Ar(tp) == <<ROne>> \o [i \in 1..Len(tp) |-> RNeg(tp[i])]

\* np.roots: no root for a constant polynomial
NpRoots(ar) ==
    IF Len(ar) = 1 THEN {<<>>}
    ELSE {RootCatalogue[i] : i \in {j \in DOMAIN RootCatalogue :
                CataloguePoly[j] = [x \in 1..Len(ar) |-> CReal(ar[x])]}}

\* np.angle / (2 pi), in turns, of a number on an axis
AngleTurns(p) ==
    IF p.im.n > 0 THEN Rat(1, 4)
    ELSE IF p.im.n < 0 THEN Rat(-1, 4)
    ELSE IF p.re.n < 0 THEN Rat(1, 2) ELSE RZero

SignedAngle(p) == AngleTurns(p)

AbsAngle(p) == RAbs(AngleTurns(p))

\* x placed after the elements of the sorted s whose key is not larger
RECURSIVE Insert(_, _)
Insert(s, x) ==
    IF s = <<>> THEN <<x>>
    ELSE IF RLess(AbsAngle(x), AbsAngle(s[Len(s)])) 
         THEN Insert(SubSeq(s, 1, Len(s) - 1), x) \o <<s[Len(s)]>>
         ELSE s \o <<x>>

\* sorted(..., key=lambda x: abs(np.angle(x))): a stable sort
RECURSIVE SortedByAbsAngle(_)
SortedByAbsAngle(s) ==
    IF s = <<>> THEN <<>>
    ELSE Insert(SortedByAbsAngle(SubSeq(s, 1, Len(s) - 1)), s[Len(s)])

ExtractPoles ==
    /\ pc = "roots"
    /\ \E r \in NpRoots(Ar(thetap)) :
          poles_values' = SortedByAbsAngle(r)
    /\ container' = "list"
    /\ pc' = "stabilize"
    /\ UNCHANGED <<input, coeffs, moments, mod_scale, spectrum, residues, comps, outcome>>

(***************************************************************************)
(* Lines 68-70: mod_scale = min(0.99 / max|pole|, 1).  Python's min        *)
(* returns the int 1 when 1 < 0.99 / max|pole|, and then 1 * list is the   *)
(* list again; otherwise mod_scale is a float64 and mod_scale * list is an *)
(* ndarray.  max() of no pole raises ValueError.                           *)
(***************************************************************************)
StabRadius == Rat(99, 100)

MaxAbs(pv) == RMax([i \in 1..Len(pv) |-> CAbs(pv[i])])

ModScale(pv) ==
    LET a == RDiv(StabRadius, MaxAbs(pv))
    IN  IF RLess(ROne, a) THEN [isInt |-> TRUE, v |-> ROne]
        ELSE [isInt |-> FALSE, v |-> a]

ScalePolesSkipped(ms, pv) == pv

ScalePoles(ms, pv) == [i \in 1..Len(pv) |-> CScale(ms.v, pv[i])]

\* thetap * np.cumprod(np.ones(thetap.shape) * mod_scale)
ScaleCoeffs(ms, tp) == [i \in 1..Len(tp) |-> RMul(tp[i], RPow(ms.v, i))]

StabilizeSkipEmpty ==
    /\ pc = "stabilize"
    /\ mod_scale' = IF poles_values = <<>> THEN [isInt |-> TRUE, v |-> ROne]
                    ELSE ModScale(poles_values)
    /\ poles_values' = IF mod_scale'.isInt THEN poles_values
                       ELSE ScalePoles(mod_scale', poles_values)
    /\ container' = IF mod_scale'.isInt THEN "list" ELSE "ndarray"
    /\ thetap' = ScaleCoeffs(mod_scale', thetap)
    /\ thetapBuf' = "thetap@70"
    /\ pc' = "spectrum"
    /\ UNCHANGED <<input, moments, spectrum, residues, comps, outcome>>

Stabilize ==
    /\ pc = "stabilize"
    /\ \/ /\ poles_values = <<>>
          /\ error' = [type |-> "ValueError", line |-> 68, step |-> "stabilize"]
          /\ pc' = "raised"
          /\ UNCHANGED <<coeffs, polestate, result>>
       \/ /\ poles_values # <<>>
          /\ mod_scale' = ModScale(poles_values)
          /\ poles_values' = IF mod_scale'.isInt THEN poles_values
                             ELSE ScalePoles(mod_scale', poles_values)
          /\ container' = IF mod_scale'.isInt THEN "list" ELSE "ndarray"
          /\ thetap' = ScaleCoeffs(mod_scale', thetap)
          /\ thetapBuf' = "thetap@70"
          /\ pc' = "spectrum"
          /\ UNCHANGED outcome
    /\ UNCHANGED <<input, moments, spectrum, residues, comps>>

(***************************************************************************)
(* Lines 72-80: the frequency grid, z = exp(2j*pi*fs), the power spectrum  *)
(* (var / fsamp) / |A(conj z)|^2 of the stabilized coefficients.           *)
(***************************************************************************)
\* np.linspace(-0.5, 0.5, 5)
fs == <<Rat(-1, 2), Rat(-1, 4), RZero, Rat(1, 4), Rat(1, 2)>>

\* np.exp(2j * np.pi * f) for f on the grid
ExpTurns(f) ==
    IF f = RZero THEN COne
    ELSE IF f = Rat(1, 4) THEN CI
    ELSE IF f = Rat(-1, 4) THEN CNeg(CI)
    ELSE CNeg(COne)

z == [b \in DOMAIN fs |-> ExpTurns(fs[b])]

ArComplex(tp) == [x \in 1..(Len(tp) + 1) |-> CReal(Ar(tp)[x])]

Powers(v, fsmp, tp) ==
    [b \in DOMAIN fs |->
        RDiv(RDiv(v, fsmp), CAbs2(Polyval(ArComplex(tp), Conj(z[b]))))]

Frequencies(fsmp) == [b \in DOMAIN fs |-> RMul(fs[b], fsmp)]

EvaluateSpectrum ==
    /\ pc = "spectrum"
    /\ powers' = Powers(var, fsamp, thetap)
    /\ frequencies' = Frequencies(fsamp)
    /\ pc' = "residues"
    /\ UNCHANGED <<input, coeffs, moments, polestate, residues, comps, outcome>>

(***************************************************************************)
(* Lines 81-92: the residues 1 / (p * prod(p - others) * prod(1/p -        *)
(* conj(poles))), the poles' frequencies and powers.  "others" are the     *)
(* values val of poles_values with "val is not p".  Iterating a list gives *)
(* its element objects, so exactly p's own entry is left out; iterating an *)
(* ndarray boxes a new scalar object at every step, so no val is p and     *)
(* nothing is left out.                                                    *)
(***************************************************************************)
\* val is not p, val the j-th and p the i-th value the iterations yield
IsNot(cont, pv, j, i) == IF cont = "list" THEN j # i ELSE TRUE

RECURSIVE OthersFrom(_, _, _, _)
OthersFrom(cont, pv, i, j) ==
    IF j > Len(pv) THEN <<>>
    ELSE (IF IsNot(cont, pv, j, i) THEN <<pv[j]>> ELSE <<>>)
            \o OthersFrom(cont, pv, i, j + 1)

Others(cont, pv, i) == OthersFrom(cont, pv, i, 1)

Residual(cont, pv, i) ==
    LET p == pv[i]
        o == Others(cont, pv, i)
        prod1 == CProd([j \in 1..Len(o) |-> CSub(p, o[j])])
        prod2 == CProd([j \in 1..Len(pv) |-> CSub(CInv(p), Conj(pv[j]))])
    IN  CInv(CMul(CMul(p, prod1), prod2))

ComputeResidues ==
    /\ pc = "residues"
    /\ poles_residuals' =
          [i \in 1..Len(poles_values) |-> Residual(container, poles_values, i)]
    /\ poles_frequencies' =
          [i \in 1..Len(poles_values) |-> RMul(AngleTurns(poles_values[i]), fsamp)]
    /\ poles_powers' =
          [i \in 1..Len(poles_values) |-> RMul(var, Re(poles_residuals'[i]))]
    /\ pc' = "comps"
    /\ UNCHANGED <<input, coeffs, moments, polestate, spectrum, comps, outcome>>

(***************************************************************************)
(* Lines 94-99: each pole's spectral component on the grid.                *)
(***************************************************************************)
Comp(v, fsmp, res, p) ==
    LET ref == CInv(Conj(p))
    IN  [b \in DOMAIN fs |->
            LET pp == CDiv(CMul(res, p), CSub(z[b], p))
                refpp == CDiv(CMul(CNeg(Conj(res)), ref), CSub(z[b], ref))
            IN  CScale(RDiv(v, fsmp), CAdd(pp, refpp))]

Decompose ==
    /\ pc = "comps"
    /\ poles_comps' =
          [i \in 1..Len(poles_values) |->
              Comp(var, fsamp, poles_residuals[i], poles_values[i])]
    /\ pc' = "aggregate"
    /\ UNCHANGED <<input, coeffs, moments, polestate, spectrum, residues,
                   poles_comps_agg, outcome>>

(***************************************************************************)
(* Lines 101-109: the components of a pole and of the next one are added   *)
(* when the next one is close to its conjugate.                            *)
(***************************************************************************)
Atol == Rat(1, 100000000)

Rtol == Rat(1, 100000)

RMax2(a, b) == IF RLess(a, b) THEN b ELSE a

\* np.isclose(a, b): |a - b| <= atol + rtol * |b|
IsClose(a, b) ==
    LET dre == RAbs(RSub(a.re, b.re))
        dim == RAbs(RSub(a.im, b.im))
        tol == RAdd(Atol, RMul(Rtol, CAbs(b)))
    IN  IF RLess(tol, RMax2(dre, dim)) THEN FALSE
        ELSE IF RLeq(RAdd(dre, dim), tol) THEN TRUE
        ELSE RLeq(CAbs2(CSub(a, b)), RMul(tol, tol))

VecAdd(x, y) == [b \in DOMAIN x |-> CAdd(x[b], y[b])]

RECURSIVE AggregateUpTo(_, _, _)
AggregateUpTo(pv, cs, i) ==
    IF i <= 1 THEN <<cs[1]>>
    ELSE LET agg == AggregateUpTo(pv, cs, i - 1)
         IN  IF IsClose(pv[i], Conj(pv[i - 1]))
             THEN [agg EXCEPT ![Len(agg)] = VecAdd(@, cs[i])]
             ELSE Append(agg, cs[i])

Aggregate ==
    /\ pc = "aggregate"
    /\ poles_comps_agg' = AggregateUpTo(poles_values, poles_comps, Len(poles_values))
    /\ pc' = "return"
    /\ UNCHANGED <<input, coeffs, moments, polestate, spectrum, residues,
                   poles_comps, outcome>>

(***************************************************************************)
(* Lines 111-123: the Pole records and the SpectralAnalysis returned.      *)
(***************************************************************************)
Poles(pv, fr, pw, res) ==
    [i \in 1..Len(pv) |->
        [pos |-> pv[i], frequency |-> fr[i], power |-> pw[i], residual |-> res[i]]]

CompsAlways(agg, raw, ag) == agg

CompsReturned(agg, raw, ag) == IF ag THEN agg ELSE raw

Return ==
    /\ pc = "return"
    /\ result' = [frequencies |-> frequencies,
                  powers |-> powers,
                  poles |-> Poles(poles_values, poles_frequencies, poles_powers,
                                  poles_residuals),
                  comps |-> CompsReturned(poles_comps_agg, poles_comps, aggregate),
                  buffers |-> {"frequencies@80", "powers@79",
                               IF aggregate THEN "poles_comps_agg@101"
                               ELSE "poles_comps@99"}]
    /\ pc' = "done"
    /\ UNCHANGED <<input, coeffs, moments, polestate, spectrum, residues, comps, error>>

Next ==
    \/ Preprocess
    \/ EstimateVariance
    \/ ExtractPoles
    \/ Stabilize
    \/ EvaluateSpectrum
    \/ ComputeResidues
    \/ Decompose
    \/ Aggregate
    \/ Return

Spec == Init /\ [][Next]_vars

(***************************************************************************)
(* What the claims speak of.                                               *)
(***************************************************************************)
\* the AR coefficients of the model supplied, intercept removed
GivenThetap ==
    IF given.hasTheta0 THEN SubSeq(given.theta, 2, Len(given.theta)) ELSE given.theta

\* the poles before stabilization, in the order the sort gave them
RawPoles == {SortedByAbsAngle(r) : r \in NpRoots(Ar(GivenThetap))}

\* min(0.99 / m, 1) as a number
ScaleFactor(m) == IF RLeq(m, StabRadius) THEN ROne ELSE RDiv(StabRadius, m)

Positions == [i \in 1..Len(result.poles) |-> result.poles[i].pos]

\* two poles, each the conjugate of the other, off the real axis
HasConjugatePair(pv) ==
    \E i, j \in 1..Len(pv) : i # j /\ pv[i].im # RZero /\ pv[j] = Conj(pv[i])

HasRepeatedPole(pv) == \E i, j \in 1..Len(pv) : i # j /\ pv[i] = pv[j]

RECURSIVE CSum(_)
CSum(s) == IF s = <<>> THEN CZero ELSE CAdd(CSum(SubSeq(s, 1, Len(s) - 1)), s[Len(s)])

\* the sum of the contribution arrays at one frequency bin
CompsSum(cs, b) == CSum([i \in 1..Len(cs) |-> cs[i][b]])

AfterResidues == pc \in {"comps", "aggregate", "return", "done"}

(***************************************************************************)
(* C1.  Every pole psd() returns has magnitude at most 0.99: the returned  *)
(* positions are the sorted roots, all times the one factor                *)
(* s = min(0.99 / max|pole|, 1), which is 1 when the largest raw magnitude *)
(* is within 0.99.                                                         *)
(***************************************************************************)
C1_PolesWithinRadius ==
    pc = "done" =>
        \E raw \in RawPoles :
            /\ Len(result.poles) = Len(raw)
            /\ \A i \in 1..Len(raw) :
                  /\ Positions[i] = CScale(ScaleFactor(MaxAbs(raw)), raw[i])
                  /\ RLeq(CAbs(Positions[i]), StabRadius)

\* a returned model of two poles whose largest raw magnitude lay strictly
\* between 0.99 and 1
C1_Witness ==
    /\ pc = "done"
    /\ Len(result.poles) >= 2
    /\ ~mod_scale.isInt
    /\ RLess(StabRadius, mod_scale.v) /\ RLess(mod_scale.v, ROne)

(***************************************************************************)
(* C2.  Every entry of the power array psd() returns is real and          *)
(* non-negative, for any k, and the power array is as long as the          *)
(* frequency array.                                                        *)
(***************************************************************************)
C2_PowersNonNegative ==
    pc = "done" =>
        /\ Len(result.powers) = Len(result.frequencies)
        /\ \A b \in 1..Len(result.powers) : RLeq(RZero, result.powers[b])

Merged(pv) == {i \in 2..Len(pv) : IsClose(pv[i], Conj(pv[i - 1]))}

C4_CompsSumToPowers ==
    pc = "done" =>
        \A b \in 1..Len(result.powers) :
            CompsSum(result.comps, b) = CReal(result.powers[b])

(***************************************************************************)
(* C5.  psd() returns one pole per root of the degree-p polynomial, sorted *)
(* by non-decreasing absolute angle, in the order the sort before          *)
(* stabilization gave them: the returned positions are the roots of the    *)
(* stabilized polynomial, and position by position they have the angles of *)
(* the sorted raw roots.                                                   *)
(***************************************************************************)
C5_PolesSorted ==
    pc = "done" =>
        /\ Len(result.poles) = Len(GivenThetap)
        /\ PolyFromRoots(Positions) = ArComplex(thetap)
        /\ \A i, j \in 1..Len(result.poles) :
              i < j => RLeq(RAbs(AngleTurns(Positions[i])), RAbs(AngleTurns(Positions[j])))
        /\ \E raw \in RawPoles :
              \A i \in 1..Len(raw) : AngleTurns(Positions[i]) = AngleTurns(raw[i])

\* a returned, rescaled model whose roots np.roots did not return in sorted order
C5_Witness ==
    /\ pc = "done"
    /\ ~mod_scale.isInt /\ RLess(mod_scale.v, ROne)
    /\ \E r \in NpRoots(Ar(GivenThetap)) : SortedByAbsAngle(r) # r

\* no AR coefficient is left once the intercept is removed
EmptyAfterIntercept == Len(GivenThetap) = 0

C7_NoResultForBadK == RLeq(given.k, RZero) => result = None

(***************************************************************************)
(* C8.  When two poles are identical psd() returns no result, so none      *)
(* whose residues, powers or contributions hold inf or nan.                *)
(***************************************************************************)
C8_NoResultForRepeatedPole ==
    ~(pc = "done" /\ HasRepeatedPole(Positions))

(***************************************************************************)
(* C9.  psd() leaves the model as the caller supplied it: theta, wn, k     *)
(* and hasTheta0 keep their values throughout the call, and no array of    *)
(* the result occupies the buffer of theta or of wn.                       *)
(***************************************************************************)
C9_InputUntouched ==
    /\ model = given
    /\ pc = "done" => result.buffers \cap {BufTheta, BufWn} = {}

\* a returned, aggregated result of a model with an intercept whose
\* coefficients stabilization rescaled
C9_Witness ==
    /\ pc = "done"
    /\ aggregate
    /\ given.hasTheta0
    /\ ~mod_scale.isInt /\ RLess(mod_scale.v, ROne)
    /\ thetap # GivenThetap

(***************************************************************************)
(* C10.  For pairwise distinct poles, the first product of every pole's    *)
(* residue has one factor per other pole and leaves out the pole's own, so *)
(* the residue is finite, whether the poles are the list of roots or the   *)
(* rescaled array.                                                         *)
(***************************************************************************)
C10_OwnFactorOmitted ==
    AfterResidues /\ ~HasRepeatedPole(poles_values) =>
        \A i \in 1..Len(poles_values) :
            /\ Others(container, poles_values, i)
                  = [j \in 1..(Len(poles_values) - 1) |->
                        poles_values[IF j < i THEN j ELSE j + 1]]
            /\ CFin(poles_residuals[i])

=============================================================================
